---- MODULE Spec2Model ----
(***************************************************************************)
(* fast_hdr (src/src/main.rs): a histogram of the difference between two   *)
(* CSV columns, either of one file (single-stream) or of two files joined  *)
(* on a key column (dual-stream, JoinRHS).                                 *)
(*                                                                         *)
(* u64 / i64 are modelled with Width bits instead of 64, so that the casts *)
(* `as i64`, `as u64` and the i64 subtraction wrap exactly as in the code. *)
(***************************************************************************)
EXTENDS Integers, Sequences, FiniteSets, Bags, TLC

\* ------------------------------------------------------------------ bounds
\* bits of the model's u64 / i64
Width == 4
\* longest left (primary) file and longest right file of the join scenarios
MaxLeft == 2
MaxRight == 3

RECURSIVE Pow2(_)
Pow2(n) == IF n = 0 THEN 1 ELSE 2 * Pow2(n - 1)

U64_MAX == Pow2(Width) - 1
I64_MAX == Pow2(Width - 1) - 1
I64_MIN == 0 - Pow2(Width - 1)

\* ------------------------------------------------------------ integer casts
\* `x as i64` for a u64 x: the same bits, read as two's complement
AsI64(u) == IF u > I64_MAX THEN u - Pow2(Width) ELSE u

\* `v as u64` for an i64 v
AsU64(v) == v % Pow2(Width)

\* the i64 result of an operation whose mathematical result is d, wrapped
WrapI64(d) == ((d - I64_MIN) % Pow2(Width)) + I64_MIN

\* `lhs - rhs` on i64: a build with overflow checks panics when the
\* mathematical difference leaves the i64 range; a build without them wraps
SubI64(a, b, checks) ==
    LET d == a - b
    IN  IF d >= I64_MIN /\ d <= I64_MAX THEN [ok |-> TRUE, v |-> d]
        ELSE IF checks THEN [ok |-> FALSE, v |-> 0]
        ELSE [ok |-> TRUE, v |-> WrapI64(d)]

\* lines 288-290 / 344-346: let lhs = lhs as i64; let rhs = rhs as i64; lhs - rhs
Difference(lhs, rhs, checks) == SubI64(AsI64(lhs), AsI64(rhs), checks)

\* -------------------------------------------------------------- histogram
\* hdrhistogram's Histogram<u64>, by its contract: a bag of recorded values
\* Histogram::new_with_max(max_value, sigfigs): low = 1, so high must be at
\* least 2, and at most 5 significant figures are supported
HistNewOk(max_value, sigfigs) == max_value >= 2 /\ sigfigs <= 5

\* hist.record(value): Err (histogram unchanged) when value is above the maximum
HistRecordOk(max_value, value) == value <= max_value

HistRecord(h, value) == h (+) SetToBag({value})

\* hist.saturating_record(value): a value above the maximum is recorded as the maximum
HistSaturatingRecord(h, max_value, value) ==
    h (+) SetToBag({IF value > max_value THEN max_value ELSE value})

\* serialize(hist): V2-deflate then base64, a function of the recorded counts
serialize(h) == [b64 |-> h]

\* ------------------------------------------------------------------ Option
\* Option<T>: None is the empty set, Some(x) the singleton {x}
None == {}
Some(x) == {x}
IsSome(o) == o # {}
Unwrap(o) == CHOOSE x \in o : TRUE

\* ------------------------------------------------------------ configuration
\* the column names Args carries (lhs_column, rhs_column, join_column)
LhsColumn == "lhs"
RhsColumn == "rhs"
JoinColumn == "join"
Columns == {LhsColumn, RhsColumn, JoinColumn}

OOBRule == {"Error", "Drop", "Saturate"}

\* ------------------------------------------------------------------- files
\* A CSV file: whether it can be opened and its header read, the column names
\* of its header, and its records.  A record is "ok" or "err" (csv::Error: the
\* csv reader rejects it, e.g. a wrong number of fields).  An "ok" record has a
\* cell under each column name; a Reader only reads the cells of the columns
\* it found in the header, so the cell of a column the header lacks stands for
\* nothing.
\* A numeric cell n >= 0 is the decimal text of n; EmptyCell is the empty field
\* (any other text that is no decimal number parses the same way).
EmptyCell == 0 - 1
CsvErrRow == [csv |-> "err", lhs |-> EmptyCell, rhs |-> EmptyCell, join |-> ""]
OkRow(l, r, j) == [csv |-> "ok", lhs |-> l, rhs |-> r, join |-> j]

\* value.parse::<u64>(): Err for non-numeric text and for a number above u64::MAX
ParseOk(cell) == cell >= 0 /\ cell <= U64_MAX

\* ------------------------------------------------------------------ Reader
\* Reader { primary_idx, rhs_idx, join_idx }: an index is modelled by the name
\* of the column it points at
NoReader == [primary_idx |-> "", rhs_idx |-> None, join_idx |-> None]

\* header.iter().position(|name| name == cname)
Position(header, cname) == IF cname \in header THEN Some(cname) ELSE None

\* new_uncompressed_reader / new_compressed_reader: Err when the file cannot be
\* opened (io / csv error) or the primary column is not in the header; an rhs
\* or join column that is asked for and not found gives index None
NewReaderOk(file, primary_cname) == file.readable /\ primary_cname \in file.header

NewReaderErr(file) == IF file.readable THEN "UserError" ELSE "IO"

NewReader(file, primary_cname, rhs_cname, join_cname) ==
    [primary_idx |-> primary_cname,
     rhs_idx |-> IF IsSome(rhs_cname) THEN Position(file.header, Unwrap(rhs_cname)) ELSE None,
     join_idx |-> IF IsSome(join_cname) THEN Position(file.header, Unwrap(join_cname)) ELSE None]

NoMeasurement == [primary |-> 0, rhs |-> None, join |-> None, line |-> 0]

\* Reader::next at read position pos (the number of records already pulled):
\* "none" at the end of the file, "err" for a csv error or a cell of an indexed
\* numeric column that does not parse (rhs first, then primary), else "some"
\* Measurement.  line is the record's number in its file.
ReaderNext(reader, rows, pos) ==
    IF pos >= Len(rows) THEN [tag |-> "none", err |-> "", m |-> NoMeasurement]
    ELSE LET value == rows[pos + 1]
         IN  IF value.csv = "err" THEN [tag |-> "err", err |-> "Csv", m |-> NoMeasurement]
             ELSE IF IsSome(reader.rhs_idx) /\ ~ParseOk(value[Unwrap(reader.rhs_idx)])
                  THEN [tag |-> "err", err |-> "ParseIntError", m |-> NoMeasurement]
             ELSE IF ~ParseOk(value[reader.primary_idx])
                  THEN [tag |-> "err", err |-> "ParseIntError", m |-> NoMeasurement]
             ELSE [tag |-> "some", err |-> "",
                   m |-> [primary |-> value[reader.primary_idx],
                          rhs |-> IF IsSome(reader.rhs_idx)
                                  THEN Some(value[Unwrap(reader.rhs_idx)]) ELSE None,
                          join |-> IF IsSome(reader.join_idx)
                                   THEN Some(value[Unwrap(reader.join_idx)]) ELSE None,
                          line |-> pos + 1]]

\* ----------------------------------------------------------------- JoinRHS
\* JoinRHS.ooo: HashMap<String, Measurement>, a function on the buffered keys
EmptyMap == [k \in {} |-> NoMeasurement]
MapRemove(map, key) == [k \in DOMAIN map \ {key} |-> map[k]]

\* mutant: an insert under a key already in the map keeps the old entry
MapInsert_KeepsFirst(map, key, rec) ==
    [k \in DOMAIN map \cup {key} |-> IF k \in DOMAIN map THEN map[k] ELSE rec]

\* HashMap::insert(key, rec): the entry of key becomes rec
MapInsert(map, key, rec) == [k \in DOMAIN map \cup {key} |-> IF k = key THEN rec ELSE map[k]]

\* mutant: a pulled row with another key is dropped instead of buffered
RECURSIVE TakeLoop_DropsOthers(_, _, _, _, _)
TakeLoop_DropsOthers(reader, rows, ooo_, rpos_, join_key) ==
    LET record == ReaderNext(reader, rows, rpos_)
    IN  IF record.tag = "none"
        THEN [tag |-> "none", err |-> "", m |-> NoMeasurement, ooo |-> ooo_, rpos |-> rpos_]
        ELSE IF record.tag = "err"
        THEN [tag |-> "err", err |-> record.err, m |-> NoMeasurement,
              ooo |-> ooo_, rpos |-> rpos_ + 1]
        ELSE IF ~IsSome(record.m.join)
        THEN [tag |-> "err", err |-> "panic", m |-> NoMeasurement,
              ooo |-> ooo_, rpos |-> rpos_ + 1]
        ELSE IF Unwrap(record.m.join) = join_key
             THEN [tag |-> "some", err |-> "", m |-> record.m,
                   ooo |-> ooo_, rpos |-> rpos_ + 1]
             ELSE TakeLoop_DropsOthers(reader, rows, ooo_, rpos_ + 1, join_key)

\* mutant: a pulled row is buffered before its key is compared, so the match is
\* returned and kept
RECURSIVE TakeLoop_BuffersMatch(_, _, _, _, _)
TakeLoop_BuffersMatch(reader, rows, ooo_, rpos_, join_key) ==
    LET record == ReaderNext(reader, rows, rpos_)
    IN  IF record.tag = "none"
        THEN [tag |-> "none", err |-> "", m |-> NoMeasurement, ooo |-> ooo_, rpos |-> rpos_]
        ELSE IF record.tag = "err"
        THEN [tag |-> "err", err |-> record.err, m |-> NoMeasurement,
              ooo |-> ooo_, rpos |-> rpos_ + 1]
        ELSE IF ~IsSome(record.m.join)
        THEN [tag |-> "err", err |-> "panic", m |-> NoMeasurement,
              ooo |-> ooo_, rpos |-> rpos_ + 1]
        ELSE LET key == Unwrap(record.m.join)
             IN  IF key = join_key
                 THEN [tag |-> "some", err |-> "", m |-> record.m,
                       ooo |-> MapInsert(ooo_, key, record.m), rpos |-> rpos_ + 1]
                 ELSE TakeLoop_BuffersMatch(reader, rows, MapInsert(ooo_, key, record.m),
                                            rpos_ + 1, join_key)

\* mutant: a take that runs off the end of the right file opens it again, so the
\* next take scans it from the start
RECURSIVE TakeLoop_Rewinds(_, _, _, _, _)
TakeLoop_Rewinds(reader, rows, ooo_, rpos_, join_key) ==
    LET record == ReaderNext(reader, rows, rpos_)
    IN  IF record.tag = "none"
        THEN [tag |-> "none", err |-> "", m |-> NoMeasurement, ooo |-> ooo_, rpos |-> 0]
        ELSE IF record.tag = "err"
        THEN [tag |-> "err", err |-> record.err, m |-> NoMeasurement,
              ooo |-> ooo_, rpos |-> rpos_ + 1]
        ELSE IF ~IsSome(record.m.join)
        THEN [tag |-> "err", err |-> "panic", m |-> NoMeasurement,
              ooo |-> ooo_, rpos |-> rpos_ + 1]
        ELSE LET key == Unwrap(record.m.join)
             IN  IF key = join_key
                 THEN [tag |-> "some", err |-> "", m |-> record.m,
                       ooo |-> ooo_, rpos |-> rpos_ + 1]
                 ELSE TakeLoop_Rewinds(reader, rows, MapInsert(ooo_, key, record.m),
                                       rpos_ + 1, join_key)

\* the while loop of JoinRHS::take (lines 250-259), from right read position rpos
RECURSIVE TakeLoop(_, _, _, _, _)
TakeLoop(reader, rows, ooo_, rpos_, join_key) ==
    LET record == ReaderNext(reader, rows, rpos_)
    IN  IF record.tag = "none"
        THEN [tag |-> "none", err |-> "", m |-> NoMeasurement, ooo |-> ooo_, rpos |-> rpos_]
        ELSE IF record.tag = "err"
        THEN [tag |-> "err", err |-> record.err, m |-> NoMeasurement,
              ooo |-> ooo_, rpos |-> rpos_ + 1]
        ELSE IF ~IsSome(record.m.join)
        THEN \* record.join.clone().unwrap() on None panics
             [tag |-> "err", err |-> "panic", m |-> NoMeasurement,
              ooo |-> ooo_, rpos |-> rpos_ + 1]
        ELSE LET key == Unwrap(record.m.join)
             IN  IF key = join_key
                 THEN [tag |-> "some", err |-> "", m |-> record.m,
                       ooo |-> ooo_, rpos |-> rpos_ + 1]
                 ELSE TakeLoop(reader, rows, MapInsert(ooo_, key, record.m),
                               rpos_ + 1, join_key)

\* mutant: a buffer hit returns the entry without removing it (get for remove)
Take_KeepsEntry(reader, rows, ooo_, rpos_, join_key) ==
    IF join_key \in DOMAIN ooo_
    THEN [tag |-> "some", err |-> "", m |-> ooo_[join_key], ooo |-> ooo_, rpos |-> rpos_]
    ELSE TakeLoop(reader, rows, ooo_, rpos_, join_key)

\* mutant: a buffer hit empties the buffer (clear for remove)
Take_ClearsBuffer(reader, rows, ooo_, rpos_, join_key) ==
    IF join_key \in DOMAIN ooo_
    THEN [tag |-> "some", err |-> "", m |-> ooo_[join_key], ooo |-> EmptyMap, rpos |-> rpos_]
    ELSE TakeLoop(reader, rows, ooo_, rpos_, join_key)

\* mutant: a buffer hit also pulls the next right record and throws it away
Take_ReadsOnHit(reader, rows, ooo_, rpos_, join_key) ==
    IF join_key \in DOMAIN ooo_
    THEN [tag |-> "some", err |-> "", m |-> ooo_[join_key],
          ooo |-> MapRemove(ooo_, join_key),
          rpos |-> IF rpos_ < Len(rows) THEN rpos_ + 1 ELSE rpos_]
    ELSE TakeLoop(reader, rows, ooo_, rpos_, join_key)

\* JoinRHS::take(join_key)
Take(reader, rows, ooo_, rpos_, join_key) ==
    IF join_key \in DOMAIN ooo_
    THEN [tag |-> "some", err |-> "", m |-> ooo_[join_key],
          ooo |-> MapRemove(ooo_, join_key), rpos |-> rpos_]
    ELSE TakeLoop(reader, rows, ooo_, rpos_, join_key)

\* ---------------------------------------------------------------- OOB rule
\* the match on self.oob of single_file_to_hist (lines 292-306) for difference v:
\* ok = FALSE is the `?` on hist.record's Err
OobSingle(oob, max_value, h, v) ==
    CASE oob = "Error" ->
           IF HistRecordOk(max_value, AsU64(v))
           THEN [ok |-> TRUE, hist |-> HistRecord(h, AsU64(v))]
           ELSE [ok |-> FALSE, hist |-> h]
      [] oob = "Saturate" ->
           [ok |-> TRUE, hist |-> HistSaturatingRecord(h, max_value, AsU64(v))]
      [] oob = "Drop" ->
           IF v >= 0 /\ v < AsI64(max_value)
           THEN IF HistRecordOk(max_value, AsU64(v))
                THEN [ok |-> TRUE, hist |-> HistRecord(h, AsU64(v))]
                ELSE [ok |-> FALSE, hist |-> h]
           ELSE [ok |-> TRUE, hist |-> h]

\* the match on self.oob of dual_file_to_hist (lines 348-366)
OobDual(oob, max_value, h, v) ==
    CASE oob = "Error" ->
           IF v > 0
           THEN IF HistRecordOk(max_value, AsU64(v))
                THEN [ok |-> TRUE, hist |-> HistRecord(h, AsU64(v))]
                ELSE [ok |-> FALSE, hist |-> h]
           ELSE [ok |-> TRUE, hist |-> h]
      [] oob = "Saturate" ->
           IF v > 0
           THEN [ok |-> TRUE, hist |-> HistSaturatingRecord(h, max_value, AsU64(v))]
           ELSE [ok |-> TRUE, hist |-> h]
      [] oob = "Drop" ->
           IF v >= 0 /\ v < AsI64(max_value)
           THEN IF HistRecordOk(max_value, AsU64(v))
                THEN [ok |-> TRUE, hist |-> HistRecord(h, AsU64(v))]
                ELSE [ok |-> FALSE, hist |-> h]
           ELSE [ok |-> TRUE, hist |-> h]

\* ------------------------------------------------------------------- state
VARIABLES
    cfg,       \* Args: oob, max_value, sigfigs, rhs_fname, join_column
    checks,    \* whether the build panics on i64 overflow (debug) or wraps (release)
    lfile,     \* the file Args.fname names
    rfile,     \* the file Args.rhs_fname names
    pc,        \* Idle, SingleOpen, SingleStream, DualOpen, DualStream, Done, Failed
    err,       \* the Error (or "panic") that ended the run, "" while there is none
    hist,      \* the Histogram<u64>
    lreader,   \* the Reader over lfile (records / lhs_records)
    rreader,   \* JoinRHS.reader
    lpos,      \* records pulled from lfile
    rpos,      \* records pulled from rfile
    ooo,       \* JoinRHS.ooo
    takes,     \* history: one entry per JoinRHS::take call that returned Ok
    out        \* what main printed: None, or Some(serialize(hist))

vars == <<cfg, checks, lfile, rfile, pc, err, hist, lreader, rreader, lpos, rpos, ooo, takes, out>>

\* the part of the state a loop iteration changes
Run(pc_, err_, hist_, lpos_, rpos_, ooo_, takes_) ==
    [pc |-> pc_, err |-> err_, hist |-> hist_, lpos |-> lpos_, rpos |-> rpos_,
     ooo |-> ooo_, takes |-> takes_]

Fail(st, e) == [st EXCEPT !.pc = "Failed", !.err = e]

\* mutant: a missing secondary value counts as 0 (unwrap_or(0) for `if let Some`)
SingleBody_AbsentAsZero(c, chk, reader, rows, st) ==
    LET record == ReaderNext(reader, rows, st.lpos)
        at == IF record.tag = "none" THEN st ELSE [st EXCEPT !.lpos = st.lpos + 1]
    IN  IF record.tag = "none" THEN [st EXCEPT !.pc = "Done"]
        ELSE IF record.tag = "err" THEN Fail(at, record.err)
        ELSE LET rhs == IF IsSome(record.m.rhs) THEN Unwrap(record.m.rhs) ELSE 0
                 d == Difference(record.m.primary, rhs, chk)
                 r == OobSingle(c.oob, c.max_value, st.hist, d.v)
             IN  IF ~d.ok THEN Fail(at, "panic")
                 ELSE IF ~r.ok THEN Fail(at, "UserError")
                 ELSE [at EXCEPT !.hist = r.hist]

\* mutant: a record that fails to read is skipped (`continue` for `?`)
SingleBody_SkipsBadRecord(c, chk, reader, rows, st) ==
    LET record == ReaderNext(reader, rows, st.lpos)
        at == IF record.tag = "none" THEN st ELSE [st EXCEPT !.lpos = st.lpos + 1]
    IN  IF record.tag = "none" THEN [st EXCEPT !.pc = "Done"]
        ELSE IF record.tag = "err" THEN at
        ELSE IF ~IsSome(record.m.rhs) THEN at
        ELSE LET d == Difference(record.m.primary, Unwrap(record.m.rhs), chk)
                 r == OobSingle(c.oob, c.max_value, st.hist, d.v)
             IN  IF ~d.ok THEN Fail(at, "panic")
                 ELSE IF ~r.ok THEN Fail(at, "UserError")
                 ELSE [at EXCEPT !.hist = r.hist]

\* one turn of `for record in records` in single_file_to_hist (lines 282-310),
\* or leaving the loop with Ok(hist) (line 312)
SingleBody(c, chk, reader, rows, st) ==
    LET record == ReaderNext(reader, rows, st.lpos)
        at == IF record.tag = "none" THEN st ELSE [st EXCEPT !.lpos = st.lpos + 1]
    IN  IF record.tag = "none" THEN [st EXCEPT !.pc = "Done"]
        ELSE IF record.tag = "err" THEN Fail(at, record.err)
        ELSE IF ~IsSome(record.m.rhs) THEN at
        ELSE LET d == Difference(record.m.primary, Unwrap(record.m.rhs), chk)
                 r == OobSingle(c.oob, c.max_value, st.hist, d.v)
             IN  IF ~d.ok THEN Fail(at, "panic")
                 ELSE IF ~r.ok THEN Fail(at, "UserError")
                 ELSE [at EXCEPT !.hist = r.hist]

\* mutant: a left record without a join key is not consumed, so the loop stays
\* on it
DualBody_StaysOnKeyless(c, chk, lrd, lrows, rrd, rrows, st) ==
    LET lhs_record == ReaderNext(lrd, lrows, st.lpos)
        at == IF lhs_record.tag = "none" THEN st ELSE [st EXCEPT !.lpos = st.lpos + 1]
    IN  IF lhs_record.tag = "none" THEN [st EXCEPT !.pc = "Done"]
        ELSE IF lhs_record.tag = "err" THEN Fail(at, lhs_record.err)
        ELSE IF ~IsSome(lhs_record.m.join) THEN st
        ELSE LET join_value == Unwrap(lhs_record.m.join)
                 rhs == Take(rrd, rrows, st.ooo, st.rpos, join_value)
                 took == [at EXCEPT !.ooo = rhs.ooo, !.rpos = rhs.rpos]
                 noted == [took EXCEPT !.takes = Append(st.takes,
                              [key |-> join_value, left |-> lhs_record.m.line,
                               right |-> rhs.m.line])]
             IN  IF rhs.tag = "err" THEN Fail(took, rhs.err)
                 ELSE IF rhs.tag = "none" THEN noted
                 ELSE LET d == Difference(lhs_record.m.primary, rhs.m.primary, chk)
                          r == OobDual(c.oob, c.max_value, st.hist, d.v)
                      IN  IF ~d.ok THEN Fail(noted, "panic")
                          ELSE IF ~r.ok THEN Fail(noted, "UserError")
                          ELSE [noted EXCEPT !.hist = r.hist]

\* one turn of `for lhs_record in lhs_records` in dual_file_to_hist (lines
\* 331-368), or leaving the loop with Ok(hist) (line 370)
DualBody(c, chk, lrd, lrows, rrd, rrows, st) ==
    LET lhs_record == ReaderNext(lrd, lrows, st.lpos)
        at == IF lhs_record.tag = "none" THEN st ELSE [st EXCEPT !.lpos = st.lpos + 1]
    IN  IF lhs_record.tag = "none" THEN [st EXCEPT !.pc = "Done"]
        ELSE IF lhs_record.tag = "err" THEN Fail(at, lhs_record.err)
        ELSE IF ~IsSome(lhs_record.m.join) THEN at
        ELSE LET join_value == Unwrap(lhs_record.m.join)
                 rhs == Take(rrd, rrows, st.ooo, st.rpos, join_value)
                 took == [at EXCEPT !.ooo = rhs.ooo, !.rpos = rhs.rpos]
                 noted == [took EXCEPT !.takes = Append(st.takes,
                              [key |-> join_value, left |-> lhs_record.m.line,
                               right |-> rhs.m.line])]
             IN  IF rhs.tag = "err" THEN Fail(took, rhs.err)
                 ELSE IF rhs.tag = "none" THEN noted
                 ELSE LET d == Difference(lhs_record.m.primary, rhs.m.primary, chk)
                          r == OobDual(c.oob, c.max_value, st.hist, d.v)
                      IN  IF ~d.ok THEN Fail(noted, "panic")
                          ELSE IF ~r.ok THEN Fail(noted, "UserError")
                          ELSE [noted EXCEPT !.hist = r.hist]

Now == Run(pc, err, hist, lpos, rpos, ooo, takes)

Becomes(st) ==
    /\ pc' = st.pc
    /\ err' = st.err
    /\ hist' = st.hist
    /\ lpos' = st.lpos
    /\ rpos' = st.rpos
    /\ ooo' = st.ooo
    /\ takes' = st.takes

\* ----------------------------------------------------------------- actions
\* Args::to_hist (lines 265-272): which of the two pipelines runs
ToHist ==
    /\ pc = "Idle"
    /\ IF IsSome(cfg.rhs_fname)
       THEN IF IsSome(cfg.join_column)
            THEN pc' = "DualOpen" /\ err' = err
            ELSE pc' = "Failed" /\ err' = "UserError"
       ELSE pc' = "SingleOpen" /\ err' = err
    /\ UNCHANGED <<cfg, checks, lfile, rfile, hist, lreader, rreader, lpos, rpos, ooo, takes, out>>

\* single_file_to_hist, lines 275-281: the histogram and the reader
SingleFileOpen ==
    /\ pc = "SingleOpen"
    /\ IF ~HistNewOk(cfg.max_value, cfg.sigfigs)
       THEN pc' = "Failed" /\ err' = "HistError" /\ lreader' = lreader
       ELSE IF ~NewReaderOk(lfile, LhsColumn)
       THEN pc' = "Failed" /\ err' = NewReaderErr(lfile) /\ lreader' = lreader
       ELSE /\ pc' = "SingleStream"
            /\ err' = err
            /\ lreader' = NewReader(lfile, LhsColumn, Some(RhsColumn), None)
    /\ UNCHANGED <<cfg, checks, lfile, rfile, hist, rreader, lpos, rpos, ooo, takes, out>>

\* single_file_to_hist, lines 282-310: one record of the file
SingleFileRow ==
    /\ pc = "SingleStream"
    /\ lpos < Len(lfile.rows)
    /\ Becomes(SingleBody(cfg, checks, lreader, lfile.rows, Now))
    /\ UNCHANGED <<cfg, checks, lfile, rfile, lreader, rreader, out>>

\* single_file_to_hist, line 312: the file is exhausted
SingleFileEnd ==
    /\ pc = "SingleStream"
    /\ lpos >= Len(lfile.rows)
    /\ Becomes(SingleBody(cfg, checks, lreader, lfile.rows, Now))
    /\ UNCHANGED <<cfg, checks, lfile, rfile, lreader, rreader, out>>

\* dual_file_to_hist, lines 316-329: the histogram, both readers, the JoinRHS
DualFileOpen ==
    /\ pc = "DualOpen"
    /\ IF ~HistNewOk(cfg.max_value, cfg.sigfigs)
       THEN pc' = "Failed" /\ err' = "HistError" /\ UNCHANGED <<lreader, rreader>>
       ELSE IF ~NewReaderOk(lfile, LhsColumn)
       THEN pc' = "Failed" /\ err' = NewReaderErr(lfile) /\ UNCHANGED <<lreader, rreader>>
       ELSE IF ~NewReaderOk(rfile, RhsColumn)
       THEN /\ pc' = "Failed"
            /\ err' = NewReaderErr(rfile)
            /\ lreader' = NewReader(lfile, LhsColumn, None, cfg.join_column)
            /\ rreader' = rreader
       ELSE /\ pc' = "DualStream"
            /\ err' = err
            /\ lreader' = NewReader(lfile, LhsColumn, None, cfg.join_column)
            /\ rreader' = NewReader(rfile, RhsColumn, None, cfg.join_column)
    /\ UNCHANGED <<cfg, checks, lfile, rfile, hist, lpos, rpos, ooo, takes, out>>

\* dual_file_to_hist, lines 331-368: one record of the left file, with its take
DualFileRow ==
    /\ pc = "DualStream"
    /\ lpos < Len(lfile.rows)
    /\ Becomes(DualBody(cfg, checks, lreader, lfile.rows, rreader, rfile.rows, Now))
    /\ UNCHANGED <<cfg, checks, lfile, rfile, lreader, rreader, out>>

\* dual_file_to_hist, line 370: the left file is exhausted
DualFileEnd ==
    /\ pc = "DualStream"
    /\ lpos >= Len(lfile.rows)
    /\ Becomes(DualBody(cfg, checks, lreader, lfile.rows, rreader, rfile.rows, Now))
    /\ UNCHANGED <<cfg, checks, lfile, rfile, lreader, rreader, out>>

\* main, lines 376-378: to_hist().unwrap() panics on Err (pc = "Failed" prints
\* nothing); on Ok the serialized histogram is printed
MainPrint ==
    /\ pc = "Done"
    /\ out = None
    /\ out' = Some(serialize(hist))
    /\ UNCHANGED <<cfg, checks, lfile, rfile, pc, err, hist, lreader, rreader, lpos, rpos, ooo, takes>>

Next ==
    \/ ToHist
    \/ SingleFileOpen
    \/ SingleFileRow
    \/ SingleFileEnd
    \/ DualFileOpen
    \/ DualFileRow
    \/ DualFileEnd
    \/ MainPrint

\* ------------------------------------------------------------------ inputs
\* all sequences over S of length at most n
SeqsUpTo(S, n) == UNION {[1..k -> S] : k \in 0..n}

Args(oob, max_value, sigfigs, rhs_fname, join_column) ==
    [oob |-> oob, max_value |-> max_value, sigfigs |-> sigfigs,
     rhs_fname |-> rhs_fname, join_column |-> join_column]

File(readable, header, rows) == [readable |-> readable, header |-> header, rows |-> rows]

\* the histogram maximum of the scenarios (the default is 30000, scaled to Width)
SmallMax == 4

NoFile == File(FALSE, {}, <<>>)

\* cells of the two value columns: unparsable, equal, in range, at and above
\* SmallMax, negative differences, and values whose i64 cast is negative
LhsCells == {EmptyCell, 0, 1, SmallMax + 1, I64_MAX + 1}
RhsCells == {EmptyCell, 0, 1, U64_MAX}

\* single-stream runs: every rule, both builds, files of up to MaxLeft records
SingleInputs ==
    [cfg : {Args(o, SmallMax, 2, None, None) : o \in OOBRule},
     checks : BOOLEAN,
     lfile : {File(TRUE, Columns, rows) :
                rows \in SeqsUpTo({OkRow(l, r, "") : l \in LhsCells, r \in RhsCells}
                                  \cup {CsvErrRow}, MaxLeft)},
     rfile : {NoFile}]

\* argument and header scenarios: every pairing of rhs_fname and join_column,
\* degenerate histogram parameters, unreadable files, headers lacking columns
ArgsInputs ==
    [cfg : {Args(o, m, sf, rf, jc) : o \in OOBRule, m \in {0, SmallMax, U64_MAX},
              sf \in {2, 6}, rf \in {None, Some("rhs.csv")},
              jc \in {None, Some(JoinColumn)}},
     checks : {FALSE},
     lfile : {File(TRUE, Columns, <<OkRow(1, 0, "A")>>)},
     rfile : {File(TRUE, Columns, <<OkRow(0, 0, "A")>>)}]

HeaderInputs ==
    [cfg : {Args(o, SmallMax, 2, rf, jc) : o \in OOBRule, rf \in {None, Some("rhs.csv")},
              jc \in {None, Some(JoinColumn)}},
     checks : {FALSE},
     lfile : {File(rd, hd, <<OkRow(1, 0, "A")>>) : rd \in BOOLEAN, hd \in SUBSET Columns},
     rfile : {File(rd, hd, <<OkRow(0, 0, "A")>>) : rd \in BOOLEAN, hd \in SUBSET Columns}]

\* dual-stream runs of one pair: every rule, both builds, all value cells
PairInputs ==
    [cfg : {Args(o, m, 2, Some("rhs.csv"), Some(JoinColumn)) :
              o \in OOBRule, m \in {SmallMax, U64_MAX}},
     checks : BOOLEAN,
     lfile : {File(TRUE, Columns, <<OkRow(l, EmptyCell, "A")>>) : l \in LhsCells},
     rfile : {File(TRUE, Columns, <<OkRow(EmptyCell, r, "A")>>) : r \in RhsCells}]

\* dual-stream runs of the join: keys in any order, repeated, missing
Keys == {"A", "B"}
LeftRows == {OkRow(l, EmptyCell, k) : l \in {1, SmallMax + 1}, k \in Keys} \cup {CsvErrRow}
RightRows == {OkRow(EmptyCell, r, k) : r \in {0, 2}, k \in Keys} \cup {CsvErrRow}

JoinInputs ==
    [cfg : {Args(o, SmallMax, 2, Some("rhs.csv"), Some(JoinColumn)) : o \in OOBRule},
     checks : {FALSE},
     lfile : {File(TRUE, Columns, rows) : rows \in SeqsUpTo(LeftRows, MaxLeft)},
     rfile : {File(TRUE, Columns, rows) : rows \in SeqsUpTo(RightRows, MaxRight)}]

\* dual-stream runs over three keys, for every order of the right file
OrderInputs ==
    [cfg : {Args(o, SmallMax, 2, Some("rhs.csv"), Some(JoinColumn)) : o \in OOBRule},
     checks : {FALSE},
     lfile : {File(TRUE, Columns, rows) :
                rows \in SeqsUpTo({OkRow(l, EmptyCell, k) : l \in {1, SmallMax + 1},
                                                            k \in {"A", "B", "C"}}, 3)},
     rfile : {File(TRUE, Columns, rows) :
                rows \in SeqsUpTo({OkRow(EmptyCell, 0, k) : k \in {"A", "B", "C"}}, 3)}]

\* dual-stream runs with empty join fields
EmptyKeyInputs ==
    [cfg : {Args(o, SmallMax, 2, Some("rhs.csv"), Some(JoinColumn)) : o \in {"Drop"}},
     checks : {FALSE},
     lfile : {File(TRUE, Columns, rows) :
                rows \in SeqsUpTo({OkRow(SmallMax + 1, EmptyCell, k) : k \in {"", "A"}}, 2)},
     rfile : {File(TRUE, Columns, rows) :
                rows \in SeqsUpTo({OkRow(EmptyCell, 2, k) : k \in {"", "A"}}, 2)}]

Inputs ==
    SingleInputs \cup ArgsInputs \cup HeaderInputs \cup PairInputs \cup JoinInputs
    \cup OrderInputs \cup EmptyKeyInputs

Init ==
    /\ \E i \in Inputs :
          /\ cfg = i.cfg
          /\ checks = i.checks
          /\ lfile = i.lfile
          /\ rfile = i.rfile
    /\ pc = "Idle"
    /\ err = ""
    /\ hist = EmptyBag
    /\ lreader = NoReader
    /\ rreader = NoReader
    /\ lpos = 0
    /\ rpos = 0
    /\ ooo = EmptyMap
    /\ takes = <<>>
    /\ out = None

Spec == Init /\ [][Next]_vars

\* the inputs of the runs checked for termination: the argument, header, pair
\* and empty-key scenarios, and the single-stream and join scenarios with one
\* value per cell
FairSingleInputs ==
    [cfg : {Args(o, SmallMax, 2, None, None) : o \in OOBRule},
     checks : {FALSE},
     lfile : {File(TRUE, Columns, rows) :
                rows \in SeqsUpTo({OkRow(1, 0, ""), OkRow(1, EmptyCell, ""), CsvErrRow},
                                  MaxLeft)},
     rfile : {NoFile}]

FairJoinInputs ==
    [cfg : {Args("Error", SmallMax, 2, Some("rhs.csv"), Some(JoinColumn))},
     checks : {FALSE},
     lfile : {File(TRUE, Columns, rows) :
                rows \in SeqsUpTo({OkRow(1, EmptyCell, k) : k \in Keys} \cup {CsvErrRow},
                                  MaxLeft)},
     rfile : {File(TRUE, Columns, rows) :
                rows \in SeqsUpTo({OkRow(EmptyCell, 0, k) : k \in Keys} \cup {CsvErrRow},
                                  MaxRight)}]

FairInputs ==
    ArgsInputs \cup HeaderInputs \cup PairInputs \cup EmptyKeyInputs
    \cup FairSingleInputs \cup FairJoinInputs

FairInit ==
    /\ \E i \in FairInputs :
          /\ cfg = i.cfg
          /\ checks = i.checks
          /\ lfile = i.lfile
          /\ rfile = i.rfile
    /\ pc = "Idle"
    /\ err = ""
    /\ hist = EmptyBag
    /\ lreader = NoReader
    /\ rreader = NoReader
    /\ lpos = 0
    /\ rpos = 0
    /\ ooo = EmptyMap
    /\ takes = <<>>
    /\ out = None

\* the program is one thread that runs until it returns or panics: a step that
\* can be taken is taken
FairSpec == FairInit /\ [][Next]_vars /\ WF_vars(Next)

\* the loop of dual_file_to_hist run to its end from st (lines 331-370)
RECURSIVE DualLoop(_, _, _, _, _, _, _)
DualLoop(c, chk, lrd, lrows, rrd, rrows, st) ==
    IF st.pc # "DualStream" THEN st
    ELSE DualLoop(c, chk, lrd, lrows, rrd, rrows,
                  DualBody(c, chk, lrd, lrows, rrd, rrows, st))

\* dual_file_to_hist on readable files lf and rf, after the histogram is made
DualRun(c, chk, lf, rf) ==
    DualLoop(c, chk,
             NewReader(lf, LhsColumn, None, c.join_column), lf.rows,
             NewReader(rf, RhsColumn, None, c.join_column), rf.rows,
             Run("DualStream", "", EmptyBag, 0, 0, EmptyMap, <<>>))

\* ---------------------------------------------------- vocabulary of claims
DualMode == IsSome(cfg.rhs_fname) /\ IsSome(cfg.join_column)
SingleMode == ~IsSome(cfg.rhs_fname)

\* every record of the file yields a Measurement with a join key
LeftWellFormed ==
    /\ lfile.readable /\ {LhsColumn, JoinColumn} \subseteq lfile.header
    /\ \A i \in 1..Len(lfile.rows) : lfile.rows[i].csv = "ok" /\ ParseOk(lfile.rows[i].lhs)
RightWellFormed ==
    /\ rfile.readable /\ {RhsColumn, JoinColumn} \subseteq rfile.header
    /\ \A j \in 1..Len(rfile.rows) : rfile.rows[j].csv = "ok" /\ ParseOk(rfile.rows[j].rhs)

LeftLines == 1..Len(lfile.rows)
RightLines == 1..Len(rfile.rows)
RightLinesWithKey(k) == {j \in RightLines : rfile.rows[j].join = k}
LeftLinesWithKey(k) == {i \in LeftLines : lfile.rows[i].join = k}

\* every left join key has exactly one right row with that key
EveryLeftKeyOnceOnRight ==
    \A i \in LeftLines : Cardinality(RightLinesWithKey(lfile.rows[i].join)) = 1

TakesOf(i) == {n \in 1..Len(takes) : takes[n].left = i}

\* every left row was matched by exactly one take, to a right row with its key,
\* and no right row was matched twice
EveryLeftRowMatchedOnce ==
    /\ \A i \in LeftLines :
          /\ Cardinality(TakesOf(i)) = 1
          /\ \A n \in TakesOf(i) :
                /\ takes[n].right \in RightLines
                /\ rfile.rows[takes[n].right].join = lfile.rows[i].join
    /\ \A n1, n2 \in 1..Len(takes) :
          (n1 # n2 /\ takes[n1].right # 0) => takes[n1].right # takes[n2].right

\* C1 as claimed: in dual-stream mode, when every left join key has exactly one
\* right row with that key, a finished run has matched every left row exactly
\* once and its Pending Buffer is empty
C1_AsClaimed ==
    (pc = "Done" /\ DualMode /\ LeftWellFormed /\ RightWellFormed /\ EveryLeftKeyOnceOnRight)
        => (EveryLeftRowMatchedOnce /\ ooo = EmptyMap)

LeftKeysDistinct == \A i \in LeftLines : Cardinality(LeftLinesWithKey(lfile.rows[i].join)) = 1
EveryRightKeyOnLeft == \A j \in RightLines : LeftLinesWithKey(rfile.rows[j].join) # {}

\* C1 amended: in dual-stream mode, when the left join keys are pairwise
\* distinct, every left key has exactly one right row with that key and every
\* right row's key is the key of some left row, a finished run has matched
\* every left row exactly once and its Pending Buffer is empty
C1_JoinCorrect ==
    (pc = "Done" /\ DualMode /\ LeftWellFormed /\ RightWellFormed
       /\ EveryLeftKeyOnceOnRight /\ LeftKeysDistinct /\ EveryRightKeyOnLeft)
        => (EveryLeftRowMatchedOnce /\ ooo = EmptyMap)

\* a finished join of two rows each side in which the first left row's match was
\* the second right row, so the second left row was served from the buffer
C1_Witness ==
    /\ pc = "Done" /\ DualMode /\ LeftWellFormed /\ RightWellFormed
    /\ EveryLeftKeyOnceOnRight /\ LeftKeysDistinct /\ EveryRightKeyOnLeft
    /\ Len(takes) = 2 /\ takes[1].right = 2 /\ takes[2].right = 1
    /\ ooo = EmptyMap

\* ------------------------------------------------------------------- C2
Perms(n) == {f \in [1..n -> 1..n] : \A i, j \in 1..n : i # j => f[i] # f[j]}
Permuted(rows, f) == [i \in 1..Len(rows) |-> rows[f[i]]]

RightKeysDistinct ==
    \A j \in RightLines : Cardinality(RightLinesWithKey(rfile.rows[j].join)) = 1

\* the (left row, matched right row) pairs of a take history over right rows rrows
PairsOf(tk, rrows) ==
    {<<tk[n].left, IF tk[n].right = 0 THEN {} ELSE {rrows[tk[n].right]}>> : n \in 1..Len(tk)}

\* C2: in dual-stream mode with join keys distinct within each stream, the run
\* on every permutation of the right stream ends as this run ends (Done or
\* Failed), with the same (left row, matched right row) pairs and the same
\* recorded differences
C2_RightOrderIndependent ==
    (pc \in {"Done", "Failed"} /\ DualMode /\ rreader # NoReader
       /\ LeftWellFormed /\ RightWellFormed /\ LeftKeysDistinct /\ RightKeysDistinct)
        => \A f \in Perms(Len(rfile.rows)) :
              LET other == DualRun(cfg, checks, lfile,
                                   [rfile EXCEPT !.rows = Permuted(rfile.rows, f)])
              IN  /\ other.pc = pc
                  /\ other.hist = hist
                  /\ PairsOf(other.takes, Permuted(rfile.rows, f)) = PairsOf(takes, rfile.rows)

\* the run of the spec's example shape: two left rows, the right stream in the
\* opposite key order, both matched and both differences recorded
C2_Witness ==
    /\ pc = "Done" /\ DualMode /\ LeftWellFormed /\ RightWellFormed
    /\ LeftKeysDistinct /\ RightKeysDistinct
    /\ Len(takes) = 2 /\ takes[1].right = 2 /\ takes[2].right = 1
    /\ BagCardinality(hist) = 2

\* ------------------------------------------------------------------- C7
\* the record of the left file the next loop turn pulls cannot be read
LeftMalformed ==
    /\ pc \in {"SingleStream", "DualStream"}
    /\ lpos < Len(lfile.rows)
    /\ LET row == lfile.rows[lpos + 1]
       IN  \/ row.csv = "err"
           \/ ~ParseOk(row.lhs)
           \/ pc = "SingleStream" /\ RhsColumn \in lfile.header /\ ~ParseOk(row.rhs)

RightMalformed(j) == rfile.rows[j].csv = "err" \/ ~ParseOk(rfile.rows[j].rhs)

\* the next single-stream turn reads a pair whose difference is above max_value
SingleAboveMax ==
    /\ pc = "SingleStream" /\ lpos < Len(lfile.rows) /\ ~LeftMalformed
    /\ RhsColumn \in lfile.header
    /\ lfile.rows[lpos + 1].lhs - lfile.rows[lpos + 1].rhs > cfg.max_value

\* this dual-stream turn matched a pair of values, both within the i64 range,
\* whose difference is above max_value
DualAboveMax ==
    /\ pc = "DualStream" /\ lpos < Len(lfile.rows) /\ ~LeftMalformed
    /\ Len(takes') = Len(takes) + 1
    /\ takes'[Len(takes')].right # 0
    /\ lfile.rows[lpos + 1].lhs <= I64_MAX
    /\ rfile.rows[takes'[Len(takes')].right].rhs <= I64_MAX
    /\ lfile.rows[lpos + 1].lhs - rfile.rows[takes'[Len(takes')].right].rhs > cfg.max_value

SinglePair ==
    /\ pc = "SingleStream" /\ lpos < Len(lfile.rows) /\ ~LeftMalformed
    /\ RhsColumn \in lfile.header
SingleLhs == lfile.rows[lpos + 1].lhs
SingleRhs == lfile.rows[lpos + 1].rhs

\* this dual-stream turn matched its left row to a right row
DualPair ==
    /\ pc = "DualStream" /\ lpos < Len(lfile.rows) /\ ~LeftMalformed
    /\ Len(takes') = Len(takes) + 1
    /\ takes'[Len(takes')].right # 0
DualLhs == lfile.rows[lpos + 1].lhs
DualRhs == rfile.rows[takes'[Len(takes')].right].rhs

Recorded(x) == hist' = hist (+) SetToBag({x}) /\ pc' = pc
Skipped == hist' = hist /\ pc' = pc
Failed == pc' = "Failed" /\ hist' = hist

\* Drop, as section 4.2 states it, for the difference lhs - rhs
DropAsClaimed(lhs, rhs) ==
    IF 0 <= lhs - rhs /\ lhs - rhs < cfg.max_value THEN Recorded(lhs - rhs) ELSE Skipped

\* C3 as claimed: under Drop, in both modes, a pair with both values present
\* adds exactly one entry lhs - rhs iff 0 <= lhs - rhs < max_value, and
\* otherwise leaves the histogram unchanged; the run never fails
C3_AsClaimed ==
    [][ cfg.oob = "Drop" =>
          /\ SinglePair => DropAsClaimed(SingleLhs, SingleRhs)
          /\ DualPair => DropAsClaimed(DualLhs, DualRhs) ]_vars

\* the casts of lhs, rhs and max_value to i64 keep their values
Exact(lhs, rhs) == lhs <= I64_MAX /\ rhs <= I64_MAX /\ cfg.max_value <= I64_MAX

\* C3 where no cast wraps: under Drop, in both modes, a pair of values that
\* are exact as i64 is recorded iff 0 <= lhs - rhs < max_value and otherwise
\* skipped, and the run goes on
C3_DropWhereExact ==
    [][ cfg.oob = "Drop" =>
          /\ (SinglePair /\ Exact(SingleLhs, SingleRhs)) => DropAsClaimed(SingleLhs, SingleRhs)
          /\ (DualPair /\ Exact(DualLhs, DualRhs)) => DropAsClaimed(DualLhs, DualRhs) ]_vars

Clamp(v, max_value) == IF v < 0 THEN 0 ELSE IF v > max_value THEN max_value ELSE v

\* C4 as claimed (stated for the pairs no cast wraps, where it fails already):
\* under Saturate, in both modes, a pair with both values present is recorded
\* exactly once, as lhs - rhs clamped to [0, max_value], and the run never fails
C4_AsClaimed ==
    [][ cfg.oob = "Saturate" =>
          /\ (SinglePair /\ Exact(SingleLhs, SingleRhs))
                => Recorded(Clamp(SingleLhs - SingleRhs, cfg.max_value))
          /\ (DualPair /\ Exact(DualLhs, DualRhs))
                => Recorded(Clamp(DualLhs - DualRhs, cfg.max_value)) ]_vars

ErrorAsClaimed(lhs, rhs) ==
    IF 0 <= lhs - rhs /\ lhs - rhs < cfg.max_value THEN Recorded(lhs - rhs) ELSE Failed

\* C5 as claimed (stated for the pairs no cast wraps, where it fails already):
\* under Error, in both modes, a pair with both values present fails the run
\* when lhs - rhs is outside [0, max_value), and is recorded, the run going
\* on, when it is inside
C5_AsClaimed ==
    [][ cfg.oob = "Error" =>
          /\ (SinglePair /\ Exact(SingleLhs, SingleRhs)) => ErrorAsClaimed(SingleLhs, SingleRhs)
          /\ (DualPair /\ Exact(DualLhs, DualRhs)) => ErrorAsClaimed(DualLhs, DualRhs) ]_vars

\* C5 as claimed, in dual-stream mode (for the pairs no cast wraps): under
\* Error a matched pair fails the run when lhs - rhs is outside [0, max_value),
\* and is recorded, the run going on, when it is inside
C5_DualAsClaimed ==
    [][ (cfg.oob = "Error" /\ DualPair /\ Exact(DualLhs, DualRhs))
          => ErrorAsClaimed(DualLhs, DualRhs) ]_vars

\* ------------------------------------------------------------------- C6
ExactlyOneOfTwo == IsSome(cfg.rhs_fname) # IsSome(cfg.join_column)

\* C6 as claimed: the run is in the dual-stream pipeline only when rhs_fname
\* and join_column are both supplied, in the single-stream pipeline only when
\* neither is, and with exactly one of them supplied it fails before a row of
\* either file is read
C6_AsClaimed ==
    /\ pc \in {"DualOpen", "DualStream"} => (IsSome(cfg.rhs_fname) /\ IsSome(cfg.join_column))
    /\ pc \in {"SingleOpen", "SingleStream"}
          => (~IsSome(cfg.rhs_fname) /\ ~IsSome(cfg.join_column))
    /\ ExactlyOneOfTwo => (pc \in {"Idle", "Failed"} /\ lpos = 0 /\ rpos = 0)

\* ------------------------------------------------------------------- C8
\* a column the run's mode uses is not in the header of its (readable) file
ConfiguredColumnMissing ==
    \/ /\ SingleMode /\ lfile.readable
       /\ (LhsColumn \notin lfile.header \/ RhsColumn \notin lfile.header)
    \/ /\ DualMode /\ lfile.readable /\ rfile.readable
       /\ \/ LhsColumn \notin lfile.header
          \/ JoinColumn \notin lfile.header
          \/ RhsColumn \notin rfile.header
          \/ JoinColumn \notin rfile.header

\* C8 as claimed: a run with a configured column missing from a header never
\* finishes with Done and never prints a histogram
C8_AsClaimed == ConfiguredColumnMissing => (pc # "Done" /\ out = None)

\* ------------------------------------------------------------------- C9
\* C9 as claimed: a right row without a join key (an empty join field, or no
\* join column in the right file) never enters the Pending Buffer, is never
\* returned as a match, and pulling it does not end the run
C9_AsClaimed ==
    /\ "" \notin DOMAIN ooo
    /\ \A n \in 1..Len(takes) :
          takes[n].right # 0 => rfile.rows[takes[n].right].join # ""
    /\ ~(pc = "Failed" /\ err = "panic" /\ rreader # NoReader /\ ~IsSome(rreader.join_idx))

\* ------------------------------------------------------------------ C10
\* the next turn pulls a record the csv reader accepts
LeftRowOk == lpos < Len(lfile.rows) /\ lfile.rows[lpos + 1].csv = "ok"

DualLeftOk == pc = "DualStream" /\ LeftRowOk /\ ParseOk(lfile.rows[lpos + 1].lhs)
NextLeftKey == lfile.rows[lpos + 1].join

\* the unread right records can all be read and none has key k
RightRestWithout(k) ==
    /\ IsSome(rreader.join_idx) \/ rpos >= Len(rfile.rows)
    /\ \A j \in (rpos + 1)..Len(rfile.rows) :
          ~RightMalformed(j) /\ rfile.rows[j].join # k

\* the turn left the right stream, the buffer and the histogram as they were
Untouched == Skipped /\ lpos' = lpos + 1 /\ rpos' = rpos /\ ooo' = ooo

\* take was not called
NoTake == Untouched /\ takes' = takes

\* take returned no match after reading the right file to its end
NoMatch(k) ==
    /\ takes' = Append(takes, [key |-> k, left |-> lpos + 1, right |-> 0])
    /\ Skipped /\ lpos' = lpos + 1 /\ rpos' = Len(rfile.rows)

\* C11 as claimed: a left row without a join key (no join column, or an empty
\* join field) is skipped without a take, without reading the right stream and
\* without changing histogram or buffer; a take of a key that is neither
\* buffered nor on an unread right row returns no match, and the run goes on
\* with an unchanged histogram
C11_AsClaimed ==
    [][ /\ (DualLeftOk /\ (~IsSome(lreader.join_idx) \/ NextLeftKey = "")) => Untouched
        /\ (DualLeftOk /\ IsSome(lreader.join_idx) /\ NextLeftKey # ""
              /\ NextLeftKey \notin DOMAIN ooo /\ RightRestWithout(NextLeftKey))
           => NoMatch(NextLeftKey)
      ]_vars

\* what holds of C11: the no-match part for every key, and the skip of a left
\* row whose file has no join column
C11_WhereHeld ==
    [][ /\ (DualLeftOk /\ ~IsSome(lreader.join_idx)) => NoTake
        /\ (DualLeftOk /\ IsSome(lreader.join_idx)
              /\ NextLeftKey \notin DOMAIN ooo /\ RightRestWithout(NextLeftKey))
           => NoMatch(NextLeftKey)
      ]_vars

\* ------------------------------------------------------------------ C12
\* the right rows pulled so far that carry key k
PulledWithKey(k) == {j \in 1..rpos : rfile.rows[j].csv = "ok" /\ rfile.rows[j].join = k}

Max(S) == CHOOSE x \in S : \A y \in S : y <= x

\* the Measurement the right reader makes of right row j
RightMeasurement(j) == ReaderNext(rreader, rfile.rows, j - 1).m

\* the turn's take found its key in the buffer
BufferHit == DualLeftOk /\ IsSome(lreader.join_idx) /\ NextLeftKey \in DOMAIN ooo

\* C12 (state part): duplicate right keys are last-writer-wins: the buffer's
\* entry for a key is the row pulled last with that key
C12_BufferHoldsLast ==
    pc \in {"DualStream", "Done"} =>
        \A k \in DOMAIN ooo :
            /\ PulledWithKey(k) # {}
            /\ ooo[k] = RightMeasurement(Max(PulledWithKey(k)))

\* C12: duplicate right keys are last-writer-wins: the buffer holds one row per
\* key, the row pulled last with that key, and a take that finds its key in the
\* buffer returns that row
C12_LastWriterWins ==
    [][ /\ C12_BufferHoldsLast'
        /\ BufferHit =>
              LET k == NextLeftKey
              IN  /\ Len(takes') = Len(takes) + 1
                  /\ takes'[Len(takes')] =
                        [key |-> k, left |-> lpos + 1, right |-> Max(PulledWithKey(k))]
      ]_vars

\* a take returned a row from the buffer that had overwritten an earlier row of
\* its key
C12_Witness ==
    \E n \in 1..Len(takes) : \E m \in 1..(n - 1) :
        /\ takes[n].right > 0 /\ takes[m].right > takes[n].right
        /\ \E j \in 1..(takes[n].right - 1) :
              /\ rfile.rows[j].csv = "ok" /\ rfile.rows[j].join = takes[n].key
              /\ \A q \in 1..Len(takes) : takes[q].right # j

\* ------------------------------------------------------------------ C14
Terminal == pc \in {"Done", "Failed"}

\* the steps a run has left at most: the left records still to pull and the
\* stages still to pass
Remaining ==
    (Len(lfile.rows) - lpos)
    + CASE pc = "Idle" -> 4
        [] pc \in {"SingleOpen", "DualOpen"} -> 3
        [] pc \in {"SingleStream", "DualStream"} -> 2
        [] pc = "Done" -> IF out = None THEN 1 ELSE 0
        [] pc = "Failed" -> 0

\* C14: over finite files every run, in either mode, reaches Done or Failed and
\* stays there; every step uses up one of the steps left, and a take ends with
\* the right stream read no further than its end
C14_Terminates ==
    /\ <>[]Terminal
    /\ [][Remaining' < Remaining /\ Remaining' >= 0
          /\ rpos' >= rpos /\ rpos' <= Len(rfile.rows)]_vars

\* a dual-stream run ended Done after takes that pulled several right rows
C14_Witness ==
    /\ pc = "Done" /\ DualMode
    /\ Len(lfile.rows) >= 2 /\ lpos = Len(lfile.rows)
    /\ rpos >= 2 /\ Len(takes) >= 2

\* ------------------------------------------------------------------ C15
\* C15: a take that finds its key in the buffer returns the buffered row,
\* removes that entry and no other, and leaves the right read position where it
\* was, whether or not unread right rows remain
C15_HitLeavesStream ==
    [][ BufferHit =>
          LET k == NextLeftKey
          IN  /\ Len(takes') = Len(takes) + 1
              /\ takes'[Len(takes')].key = k
              /\ takes'[Len(takes')].right = ooo[k].line
              /\ DOMAIN ooo' = DOMAIN ooo \ {k}
              /\ \A other \in DOMAIN ooo' : ooo'[other] = ooo[other]
              /\ rpos' = rpos
      ]_vars

\* the last take was answered from the buffer while right rows were still unread
C15_Witness ==
    /\ takes # <<>> /\ rpos < Len(rfile.rows)
    /\ LET last == takes[Len(takes)]
       IN  /\ last.right > 0
           /\ last.left = lpos
           /\ \E m \in 1..(Len(takes) - 1) : takes[m].right > last.right

\* ------------------------------------------------------------------ C16
\* the turn calls take
TakeCalled == DualLeftOk /\ IsSome(lreader.join_idx)

\* C16: the right stream is passed over once: the read position only moves
\* forward and never beyond the end of the file, the rows a turn adds to the
\* buffer are rows it pulled, and once the stream is exhausted a take pulls
\* nothing and is answered from the buffer alone
C16_SinglePass ==
    [][ /\ rpos' >= rpos /\ rpos' <= Len(rfile.rows)
        /\ \A k \in DOMAIN ooo' :
              \/ k \in DOMAIN ooo /\ ooo'[k] = ooo[k]
              \/ ooo'[k].line \in (rpos + 1)..rpos'
        /\ (TakeCalled /\ rpos = Len(rfile.rows)) =>
              /\ rpos' = rpos
              /\ Len(takes') = Len(takes) + 1
              /\ takes'[Len(takes')].right =
                    IF NextLeftKey \in DOMAIN ooo THEN ooo[NextLeftKey].line ELSE 0
              /\ ooo' = MapRemove(ooo, NextLeftKey)
      ]_vars

\* after a take ran the right stream to its end, a later take was answered from
\* the buffer and another found nothing
C16_Witness ==
    /\ rpos = Len(rfile.rows) /\ rpos >= 2
    /\ \E m, n, q \in 1..Len(takes) :
          /\ m < n /\ m < q
          /\ takes[m].right = Len(rfile.rows)
          /\ takes[n].right \in 1..(rpos - 1)
          /\ takes[q].right = 0

\* ------------------------------------------------------------------ C17
\* the right rows (by line) the buffer holds
BufferedLines == {ooo[k].line : k \in DOMAIN ooo}

\* right row j is read as a Measurement with a join key
RightRowKeyed(j) ==
    LET record == ReaderNext(rreader, rfile.rows, j - 1)
    IN  record.tag = "some" /\ IsSome(record.m.join)

\* the right rows that were in the buffer before the step, or were pulled as
\* keyed Measurements during it, and are not in the buffer after it
LeftBuffer ==
    (BufferedLines \cup {j \in (rpos + 1)..rpos' : RightRowKeyed(j)}) \ BufferedLines'

\* right row j was returned by the step's take, called for j's own key
ReturnedAsMatch(j) ==
    /\ Len(takes') = Len(takes) + 1
    /\ takes'[Len(takes')] = [key |-> rfile.rows[j].join, left |-> lpos + 1, right |-> j]

\* right row j was replaced in the buffer by a row of its key pulled later
Overwritten(j) ==
    \E j2 \in (rpos + 1)..rpos' :
        j2 > j /\ RightRowKeyed(j2) /\ rfile.rows[j2].join = rfile.rows[j].join

\* C17 as claimed: a row leaves the buffer only by being returned from a take
\* for its own key, and a row that has left it never enters it again
C17_AsClaimed ==
    [][ /\ \A j \in LeftBuffer : ReturnedAsMatch(j)
        /\ \A j \in BufferedLines' \ BufferedLines : j > rpos
      ]_vars

\* C17: a row leaves the buffer only by being returned from a take for its own
\* key or by being replaced by a later pulled row of the same key, and a row
\* that has left the buffer never enters it again
C17_MatchedOrOverwritten ==
    [][ /\ \A j \in LeftBuffer : ReturnedAsMatch(j) \/ Overwritten(j)
        /\ \A j \in LeftBuffer : ~(ReturnedAsMatch(j) /\ Overwritten(j))
        /\ \A j \in BufferedLines' \ BufferedLines : j > rpos
      ]_vars

\* one buffered row has been returned by a take and another was replaced by a
\* later row of its key
C17_Witness ==
    /\ \E n \in 1..Len(takes) : \E m \in 1..(n - 1) :
          takes[n].right > 0 /\ takes[m].right > takes[n].right
    /\ \E j \in 1..rpos : \E j2 \in (j + 1)..rpos :
          /\ RightRowKeyed(j) /\ RightRowKeyed(j2)
          /\ rfile.rows[j2].join = rfile.rows[j].join
          /\ j \notin BufferedLines
          /\ \A q \in 1..Len(takes) : takes[q].right # j

\* ------------------------------------------------------------------ C18
\* what single_file_to_hist does with the pair (lhs, rhs) on the histogram of
\* this state: the histogram it leaves, or the failure of the run
SingleOutcome(lhs, rhs) ==
    LET d == Difference(lhs, rhs, checks)
        r == OobSingle(cfg.oob, cfg.max_value, hist, d.v)
    IN  IF d.ok /\ r.ok THEN [failed |-> FALSE, hist |-> r.hist]
        ELSE [failed |-> TRUE, hist |-> hist]

\* C18 as claimed: the disposition of a pair does not depend on the mode: a
\* dual-stream turn that matched (lhs, rhs) leaves the histogram, or fails the
\* run, as single-stream mode does for the same pair, max_value and rule
C18_AsClaimed ==
    [][ DualPair =>
          LET single == SingleOutcome(DualLhs, DualRhs)
          IN  /\ (pc' = "Failed") = single.failed
              /\ hist' = single.hist
      ]_vars

\* what holds of C18: the two modes agree under Drop, and under Error and
\* Saturate for the pairs whose difference as computed is positive
C18_WhereHeld ==
    [][ (DualPair /\ (cfg.oob = "Drop"
                        \/ ~Difference(DualLhs, DualRhs, checks).ok
                        \/ Difference(DualLhs, DualRhs, checks).v > 0)) =>
          LET single == SingleOutcome(DualLhs, DualRhs)
          IN  /\ (pc' = "Failed") = single.failed
              /\ hist' = single.hist
      ]_vars

\* ------------------------------------------------------------------ C19
\* the code's difference of (lhs, rhs) is computed, and is lhs - rhs
TrueDifference(lhs, rhs) ==
    LET d == Difference(lhs, rhs, checks)
    IN  d.ok /\ d.v = lhs - rhs

\* under Drop the step records nothing unless lhs - rhs is in [0, max_value)
DropRecordsInRange(lhs, rhs) ==
    (cfg.oob = "Drop" /\ hist' # hist) => (0 <= lhs - rhs /\ lhs - rhs < cfg.max_value)

\* C19 as claimed: for every pair of u64 values the difference the rule is
\* applied to is the mathematical lhs - rhs (no cast and no subtraction wraps),
\* and under Drop no pair is recorded whose difference is outside [0, max_value)
C19_AsClaimed ==
    [][ /\ SinglePair => /\ TrueDifference(SingleLhs, SingleRhs)
                         /\ DropRecordsInRange(SingleLhs, SingleRhs)
        /\ DualPair => /\ TrueDifference(DualLhs, DualRhs)
                       /\ DropRecordsInRange(DualLhs, DualRhs)
      ]_vars

\* what holds of C19: the difference is lhs - rhs for the values below 2^63
C19_WhereExact ==
    [][ /\ (SinglePair /\ Exact(SingleLhs, SingleRhs))
              => /\ TrueDifference(SingleLhs, SingleRhs)
                 /\ DropRecordsInRange(SingleLhs, SingleRhs)
        /\ (DualPair /\ Exact(DualLhs, DualRhs))
              => /\ TrueDifference(DualLhs, DualRhs)
                 /\ DropRecordsInRange(DualLhs, DualRhs)
      ]_vars

\* ------------------------------------------------------------------ C20
\* the takes that returned a row
Matches == {n \in 1..Len(takes) : takes[n].right > 0}

\* C20: every row a take returned has the key the take was called with (the
\* key of its left row), no right row was returned by two takes, no returned
\* row is in the buffer, every buffered row is stored under its own join key,
\* and in dual-stream mode the histogram has no more entries than left rows were
\* processed or right rows were read
C20_MatchSound ==
    /\ \A n \in Matches :
          /\ takes[n].right <= rpos
          /\ rfile.rows[takes[n].right].join = takes[n].key
          /\ lfile.rows[takes[n].left].join = takes[n].key
          /\ takes[n].right \notin BufferedLines
    /\ \A n, m \in Matches : takes[n].right = takes[m].right => n = m
    /\ \A k \in DOMAIN ooo :
          /\ ooo[k].join = Some(k)
          /\ ooo[k].line \in 1..rpos
          /\ rfile.rows[ooo[k].line].join = k
    /\ DualMode =>
          /\ BagCardinality(hist) <= Cardinality(Matches)
          /\ BagCardinality(hist) <= lpos
          /\ BagCardinality(hist) <= rpos

\* takes have returned a row straight from the stream and a row from the
\* buffer, another row is still buffered, and both pairs were recorded
C20_Witness ==
    /\ DualMode /\ BagCardinality(hist) >= 2 /\ DOMAIN ooo # {}
    /\ \E n \in Matches : \E m \in 1..(n - 1) : takes[m].right > takes[n].right

====
